---- MODULE Spec2Model ----
(***************************************************************************)
(* Model of the transport core of sysdig-go: Client.bareDo (authenticate,  *)
(* dispatch, refresh-and-retry, gzip, debug tap, CheckResponse).           *)
(*                                                                         *)
(* Bytes are modelled as tokens.  A plain body is a sequence over          *)
(* "{", "}", "m", "e", "x"; "m" stands for a "message":"bad" member, "e"   *)
(* for an "errors":[{"message":"m","reason":"r"}] member, "x" for a byte   *)
(* that is not JSON.  A gzip stream is "GZ" (the header), one deflated     *)
(* token per plain token, and "CRC" (the trailer).                         *)
(***************************************************************************)
EXTENDS Integers, Sequences, FiniteSets, TLC

VARIABLES
    authKind,    \* Client.authenticator: "none", "static", "func", "refreshable"
    debug,       \* Client.debug
    ctx,         \* the ctx argument: "nil", "live", "cancelled"
    req,         \* the *http.Request argument (mutated in place)
    req0,        \* the request as the caller passed it
    pc,          \* position of the call
    depth,       \* recursion depth of bareDo
    resp,        \* the *http.Response of the latest dispatch (mutated in place)
    ret,         \* what BareDo returned: [resp, err]
    cred,        \* the authenticator's credential generation
    authOks,     \* outcome of each call of authenticator.Authenticate
    dispatches,  \* calls of httpClient.Do
    refreshes,   \* calls of Refreshable.Refresh
    statuses,    \* status code the server gave each dispatch (0: transport error)
    refreshOks,  \* outcome of each Refresh call
    wire,        \* the latest response as httpClient.Do returned it
    sent,        \* the credentials and body bytes each dispatch transmitted
    client,      \* Client.BaseURL.Path, Client.UserAgent, Client.shouldCompressResponse
    args,        \* method, urlStr and body a resource operation gives NewRequest
    dest,        \* the v argument of Client.Do: "nil", "writer", "json"
    v,           \* what v holds
    doRet,       \* what Client.Do and the resource operation returned: [resp, err]
    closed,      \* ids of the responses whose Body had Close called
    basePath0,   \* Client.BaseURL.Path as NewClient left it
    a,           \* an authenticator struct of accesstoken or of ibmiam
    newArgs,     \* the arguments of the Authenticator constructor
    newErr,      \* the error the Authenticator constructor returned
    areq,        \* header of the request given to Authenticate, and its result
    now,         \* time.Now(), in minutes
    mu,          \* ibmiam authenticator.lock: "free" or the goroutine holding it
    procs,       \* the goroutines calling the ibmiam authenticator
    exch,        \* the credential exchanges the IAM endpoint saw
    labels,      \* the map given to scope.NewEventScopeWithLabels
    selections,  \* EventScope.selections
    str          \* what EventScope.String returned

\* The state of Client.Do and of the resource operations around BareDo.
doVars == <<client, args, dest, v, doRet, closed, basePath0>>

\* The state of the authenticators of sysdig/authentication.
authnVars == <<a, newArgs, newErr, areq, now, mu, procs, exch>>

\* The state of Client.BareDo.
bareDoVars == <<authKind, debug, ctx, req, req0, depth, resp, ret, cred,
                authOks, dispatches, refreshes, statuses, refreshOks, wire, sent>>

\* The state of an event scope of sysdig/scope.
scopeVars == <<labels, selections, str>>

vars == <<authKind, debug, ctx, req, req0, pc, depth, resp, ret, cred,
          authOks, dispatches, refreshes, statuses, refreshOks, wire, sent, doVars,
          authnVars, scopeVars>>

\* Deepest recursion of bareDo the model follows (the code has no bound).
MaxDepth == 2

-----------------------------------------------------------------------------
\* Streams: what a reader yields until it ends (err = FALSE) or fails (err = TRUE).

Stream(data, err) == [data |-> data, err |-> err]

EmptyStream == Stream(<<>>, FALSE)

\* ioutil.ReadAll: the bytes read, and whether the read failed.
ReadAll(s) == [data |-> s.data, err |-> s.err]

\* ioutil.NopCloser(bytes.NewBuffer(data))
NewBuffer(data) == Stream(data, FALSE)

\* The reader after ReadAll consumed it.
Drained(s) == Stream(<<>>, s.err)

-----------------------------------------------------------------------------
\* compress/gzip, on tokens.

PlainTokens == {"{", "}", "m", "e", "x"}

Deflate(t) ==
    CASE t = "{" -> "z{"
      [] t = "}" -> "z}"
      [] t = "m" -> "zm"
      [] t = "e" -> "ze"
      [] t = "x" -> "zx"

DeflatedTokens == {Deflate(t) : t \in PlainTokens}

Inflate(z) == CHOOSE t \in PlainTokens : Deflate(t) = z

\* gzip.NewWriter(w).Write(data) followed by Close.
Gzip(data) == <<"GZ">> \o [i \in 1..Len(data) |-> Deflate(data[i])] \o <<"CRC">>

\* What the gzip reader yields from position i on: after the trailer it looks
\* for a further member, so a failure of the underlying reader shows there.
RECURSIVE InflateFrom(_, _, _)
InflateFrom(data, i, underlyingErr) ==
    IF i > Len(data) THEN Stream(<<>>, TRUE)
    ELSE IF data[i] = "CRC" THEN Stream(<<>>, underlyingErr)
    ELSE IF data[i] \in DeflatedTokens
         THEN LET rest == InflateFrom(data, i + 1, underlyingErr)
              IN  Stream(<<Inflate(data[i])>> \o rest.data, rest.err)
         ELSE Stream(<<>>, TRUE)

\* gzip.NewReader: reads the header at once and fails without one.
GzipNewReader(s) ==
    IF Len(s.data) >= 1 /\ s.data[1] = "GZ"
    THEN [ok |-> TRUE, body |-> InflateFrom(s.data, 2, s.err)]
    ELSE [ok |-> FALSE, body |-> s]

-----------------------------------------------------------------------------
\* encoding/json into ErrorResponse, on tokens.

IsJSONObject(data) ==
    /\ Len(data) >= 2
    /\ data[1] = "{"
    /\ data[Len(data)] = "}"
    /\ \A i \in 2..(Len(data) - 1) : data[i] \in {"m", "e"}

SubError == [message |-> "m", reason |-> "r"]

\* json.Unmarshal(data, errorResponse)
Unmarshal(data) ==
    IF IsJSONObject(data)
    THEN [ok |-> TRUE,
          Message |-> IF \E i \in 1..Len(data) : data[i] = "m" THEN "bad" ELSE "",
          Errors |-> IF \E i \in 1..Len(data) : data[i] = "e" THEN <<SubError>> ELSE <<>>]
    ELSE [ok |-> FALSE, Message |-> "", Errors |-> <<>>]

-----------------------------------------------------------------------------
\* Responses and errors.

NoResp == [id |-> 0, status |-> 0, encoding |-> <<>>, body |-> EmptyStream]

Err(kind) == [kind |-> kind, Response |-> 0, Message |-> "", Errors |-> <<>>]

NoErr == Err("none")

UnmarshalFailed == "error unmarshaling error response"

ErrorResponse(r, message, errors) ==
    [kind |-> "api", Response |-> r.id, Message |-> message, Errors |-> errors]

CheckResponseMutRange(r) ==
    IF 200 <= r.status /\ r.status < 299
    THEN [resp |-> r, err |-> NoErr]
    ELSE LET rd == ReadAll(r.body)
             u  == Unmarshal(rd.data)
         IN  [resp |-> [r EXCEPT !.body = NewBuffer(rd.data)],
              err  |-> IF rd.err THEN ErrorResponse(r, "", <<>>)
                       ELSE IF u.ok THEN ErrorResponse(r, u.Message, u.Errors)
                       ELSE ErrorResponse(r, UnmarshalFailed, <<>>)]

CheckResponseMutNoRestore(r) ==
    IF 200 <= r.status /\ r.status <= 299
    THEN [resp |-> r, err |-> NoErr]
    ELSE LET rd == ReadAll(r.body)
             u  == Unmarshal(rd.data)
         IN  [resp |-> [r EXCEPT !.body = Drained(r.body)],
              err  |-> IF rd.err THEN ErrorResponse(r, "", <<>>)
                       ELSE IF u.ok THEN ErrorResponse(r, u.Message, u.Errors)
                       ELSE ErrorResponse(r, UnmarshalFailed, <<>>)]

CheckResponseMutSwallow(r) ==
    IF 200 <= r.status /\ r.status <= 299
    THEN [resp |-> r, err |-> NoErr]
    ELSE LET rd == ReadAll(r.body)
             u  == Unmarshal(rd.data)
         IN  [resp |-> [r EXCEPT !.body = NewBuffer(rd.data)],
              err  |-> ErrorResponse(r, u.Message, u.Errors)]

\* Client.CheckResponse: the error, and the response with its body restored.
CheckResponse(r) ==
    IF 200 <= r.status /\ r.status <= 299
    THEN [resp |-> r, err |-> NoErr]
    ELSE LET rd == ReadAll(r.body)
             u  == Unmarshal(rd.data)
         IN  [resp |-> [r EXCEPT !.body = NewBuffer(rd.data)],
              err  |-> IF rd.err THEN ErrorResponse(r, "", <<>>)
                       ELSE IF u.ok THEN ErrorResponse(r, u.Message, u.Errors)
                       ELSE ErrorResponse(r, UnmarshalFailed, <<>>)]

gzippedMutExact(r) == r.encoding = <<"gzip">>

\* strings.Contains(resp.Header.Get("Content-Encoding"), "gzip")
gzipped(r) == \E i \in 1..Len(r.encoding) : r.encoding[i] = "gzip"

isAuthenticationErrorMut403Only(r) == r.id # 0 /\ r.status = 403

isAuthenticationError(r) == r.id # 0 /\ (r.status = 403 \/ r.status = 401)

RefreshableMutAny(kind) == kind # "none"

\* c.authenticator.(authentication.Refreshable)
Refreshable(kind) == kind = "refreshable"

-----------------------------------------------------------------------------
\* Requests.

Request(hasBody, body) == [authz |-> 0, hasBody |-> hasBody, body |-> body]

AuthenticateMutKeepFirst(r, c) == IF r.authz # 0 THEN r ELSE [r EXCEPT !.authz = c + 1]

\* Authenticator.Authenticate on success: sets the Authorization header to the
\* bearer form of the current credential (0: header not set).
Authenticate(r, c) == [r EXCEPT !.authz = c + 1]

\* What httpClient.Do(req.Clone(ctx)) puts on the wire: the credentials the
\* request carries and its body.  Clone copies the Body field as it is, so
\* the body sent is what is left to read.
Transmitted(r) ==
    [authz |-> r.authz, hasBody |-> r.hasBody, body |-> ReadAll(r.body).data]

\* The debug tap on the request: read the body and put it back.
DebugTapRequest(r) ==
    IF ~r.hasBody THEN r
    ELSE LET rd == ReadAll(r.body)
         IN  IF rd.err THEN [r EXCEPT !.body = Drained(r.body)]
             ELSE [r EXCEPT !.body = NewBuffer(rd.data)]

\* The debug tap on the response: err is the nil error of httpClient.Do, so
\* the body is always replaced by what could be read.
DebugTapResponse(r) == [r EXCEPT !.body = NewBuffer(ReadAll(r.body).data)]

ctxIsNilMutNever(c) == FALSE

\* ctx == nil
ctxIsNil(c) == c = "nil"

DoErrorMutTransport(c, transportErr) == transportErr

\* The error bareDo returns when httpClient.Do failed.
DoError(c, transportErr) == IF c = "cancelled" THEN Err("ctx") ELSE transportErr

AfterAuthenticateMutIgnore(ok) == "dispatch"

\* Where bareDo goes after Authenticate returned.
AfterAuthenticate(ok) == IF ok THEN "dispatch" ELSE "done"

\* Outcomes Authenticate can have: the static-token authenticator never fails.
AuthOutcomes(kind) == IF kind = "static" THEN {TRUE} ELSE BOOLEAN

-----------------------------------------------------------------------------
\* What the environment can supply.

AuthKinds == {"none", "static", "func", "refreshable"}

ReqBody == <<"{", "}">>

Requests == {Request(FALSE, EmptyStream), Request(TRUE, Stream(ReqBody, FALSE))}

DispatchStatuses == {200, 299, 401, 403, 500}

Encodings == {<<>>, <<"text/plain", "gzip", "charset=utf8">>}

ErrorBody == <<"{", "m", "e", "}">>

WireBodies ==
    {<<>>, ErrorBody, <<"x">>, Gzip(ErrorBody), Gzip(<<"x">>), <<"GZ", "z{">>}

Responses ==
    [id : {0}, status : DispatchStatuses, encoding : Encodings,
     body : {Stream(d, e) : d \in WireBodies, e \in BOOLEAN}]

-----------------------------------------------------------------------------
\* Client.NewRequest.  A URL path is a sequence of tokens, "/" being the path
\* separator; a request body value is "nil", "obj" (a value json can encode)
\* or "chan" (a value it cannot).

\* NewClient without options.
DefaultClient ==
    [BaseURLPath |-> <<"/">>, UserAgent |-> "sysdig-go",
     shouldCompressResponse |-> FALSE]

\* strings.HasSuffix(path, "/")
HasSuffixSlash(path) == Len(path) > 0 /\ path[Len(path)] = "/"

\* url.Parse of the reference: an invalid escape is an error.
ValidRef(urlStr) == \A i \in DOMAIN urlStr : urlStr[i] # "%zz"

\* BaseURL.Parse(urlStr) for a base path that ends in the separator.
ResolveRef(basePath, urlStr) == basePath \o urlStr

\* json.NewEncoder(buf).Encode(body): the encoding and a line feed.
EncodeJSON(body) == [ok |-> body = "obj", data |-> ReqBody \o <<"LF">>]

NoHeader == [h \in {} |-> ""]

NewRequestHeaderMutAlwaysContentType(c, body) ==
    ("Content-Type" :> "application/json")
    @@ ("Accept" :> "application/json")
    @@ (IF c.UserAgent # "" THEN "User-Agent" :> c.UserAgent ELSE NoHeader)
    @@ (IF c.shouldCompressResponse
        THEN "Accept-Encoding" :> "gzip, deflate, sdch" ELSE NoHeader)

\* The headers NewRequest sets.
NewRequestHeader(c, body) ==
    (IF body # "nil" THEN "Content-Type" :> "application/json" ELSE NoHeader)
    @@ ("Accept" :> "application/json")
    @@ (IF c.UserAgent # "" THEN "User-Agent" :> c.UserAgent ELSE NoHeader)
    @@ (IF c.shouldCompressResponse
        THEN "Accept-Encoding" :> "gzip, deflate, sdch" ELSE NoHeader)

NoReq == Request(FALSE, EmptyStream)

BaseURLOkMutNoCheck(c) == TRUE

\* The trailing-slash check NewRequest makes on every call.
BaseURLOk(c) == HasSuffixSlash(c.BaseURLPath)

\* Client.NewRequest: the request, or the error.
NewRequest(c, method, urlStr, body) ==
    IF ~BaseURLOk(c) THEN [ok |-> FALSE, err |-> Err("baseurl"), req |-> NoReq]
    ELSE IF ~ValidRef(urlStr) THEN [ok |-> FALSE, err |-> Err("url"), req |-> NoReq]
    ELSE IF body # "nil" /\ ~EncodeJSON(body).ok
         THEN [ok |-> FALSE, err |-> Err("encode"), req |-> NoReq]
    ELSE [ok  |-> TRUE,
          err |-> NoErr,
          req |-> [authz   |-> 0,
                   hasBody |-> body # "nil",
                   body    |-> IF body # "nil"
                               THEN Stream(EncodeJSON(body).data, FALSE)
                               ELSE EmptyStream,
                   method  |-> method,
                   url     |-> ResolveRef(c.BaseURLPath, urlStr),
                   header  |-> NewRequestHeader(c, body)]]

NoArgs == [method |-> "GET", urlStr |-> <<>>, body |-> "nil"]

\* The zero value of a destination.
Zero == <<>>

\* Client.Do and the resource operations are not in use.
DoIdle ==
    /\ client = DefaultClient
    /\ args = NoArgs
    /\ dest = "nil"
    /\ v = Zero
    /\ doRet = [resp |-> NoResp, err |-> NoErr]
    /\ closed = {}
    /\ basePath0 = client.BaseURLPath

\* No authenticator of sysdig/authentication is in use.
AuthnIdle ==
    /\ a = [nil |-> TRUE]
    /\ newArgs = [key |-> "", options |-> <<>>]
    /\ newErr = NoErr
    /\ areq = [header |-> NoHeader, err |-> NoErr]
    /\ now = 0
    /\ mu = "free"
    /\ procs = <<>>
    /\ exch = <<>>

\* No scope of sysdig/scope is in use.
ScopeIdle ==
    /\ labels = <<>>
    /\ selections = <<>>
    /\ str = <<>>

-----------------------------------------------------------------------------
\* Client.bareDo.

Init ==
    /\ authKind \in AuthKinds
    /\ debug \in BOOLEAN
    /\ ctx \in {"nil", "live", "cancelled"}
    /\ req \in Requests
    /\ req0 = req
    /\ pc = "enter"
    /\ depth = 0
    /\ resp = NoResp
    /\ wire = NoResp
    /\ sent = <<>>
    /\ ret = [resp |-> NoResp, err |-> NoErr]
    /\ cred = 0
    /\ authOks = <<>>
    /\ dispatches = 0
    /\ refreshes = 0
    /\ statuses = <<>>
    /\ refreshOks = <<>>
    /\ DoIdle
    /\ AuthnIdle
    /\ ScopeIdle

Return(r, e) ==
    /\ ret' = [resp |-> r, err |-> e]
    /\ pc' = "done"

\* The nil-context check, Authenticate and the debug tap on the request.
BareDoEnter ==
    /\ pc = "enter"
    /\ \/ /\ ctxIsNil(ctx)
          /\ Return(NoResp, Err("nilctx"))
          /\ UNCHANGED <<req, authOks>>
       \/ /\ ~ctxIsNil(ctx)
          /\ authKind = "none"
          /\ req' = IF debug THEN DebugTapRequest(req) ELSE req
          /\ pc' = "dispatch"
          /\ UNCHANGED <<ret, authOks>>
       \/ /\ ~ctxIsNil(ctx)
          /\ authKind # "none"
          /\ \E ok \in AuthOutcomes(authKind) :
                /\ authOks' = Append(authOks, ok)
                /\ IF AfterAuthenticate(ok) = "done"
                   THEN /\ Return(NoResp, Err("auth"))
                        /\ UNCHANGED req
                   ELSE /\ req' = IF debug
                                  THEN DebugTapRequest(Authenticate(req, cred))
                                  ELSE Authenticate(req, cred)
                        /\ pc' = "dispatch"
                        /\ UNCHANGED ret
    /\ UNCHANGED <<authKind, debug, ctx, req0, depth, resp, wire, sent, cred,
                   dispatches, refreshes, statuses, refreshOks,
                   doVars, authnVars, scopeVars>>

\* req.Clone(ctx) and httpClient.Do: the clone shares the request's body, which
\* the transport consumes.
BareDoDispatch ==
    /\ pc = "dispatch"
    /\ dispatches' = dispatches + 1
    /\ sent' = Append(sent, Transmitted(req))
    /\ req' = IF req.hasBody THEN [req EXCEPT !.body = Drained(req.body)] ELSE req
    /\ \/ /\ statuses' = Append(statuses, 0)
          /\ Return(NoResp, DoError(ctx, Err("transport")))
          /\ UNCHANGED <<resp, wire>>
       \/ \E r \in Responses :
             /\ resp' = [r EXCEPT !.id = dispatches + 1]
             /\ wire' = resp'
             /\ statuses' = Append(statuses, r.status)
             /\ pc' = "response"
             /\ UNCHANGED ret
    /\ UNCHANGED <<authKind, debug, ctx, req0, depth, cred, authOks,
                   refreshes, refreshOks,
                   doVars, authnVars, scopeVars>>

RefreshAndRetryMutNoRefresh ==
    /\ depth < MaxDepth
    /\ depth' = depth + 1
    /\ pc' = "enter"
    /\ UNCHANGED <<ret, resp, cred, refreshes, refreshOks>>

\* Refreshable.Refresh, then the recursive call of bareDo when it succeeded.
RefreshAndRetry ==
    /\ refreshes' = refreshes + 1
    /\ \E ok \in BOOLEAN :
          /\ refreshOks' = Append(refreshOks, ok)
          /\ IF ok
             THEN /\ depth < MaxDepth
                  /\ depth' = depth + 1
                  /\ cred' = cred + 1
                  /\ pc' = "enter"
                  /\ UNCHANGED ret
             ELSE /\ Return(NoResp, Err("refresh"))
                  /\ UNCHANGED <<depth, cred>>
    /\ UNCHANGED resp

FinishResponseMutCheckFirst ==
    LET r2 == IF debug THEN DebugTapResponse(resp) ELSE resp
        cr == CheckResponse(r2)
        gz == GzipNewReader(cr.resp.body)
    IN  /\ IF gzipped(resp) /\ ~gz.ok
           THEN /\ Return(NoResp, Err("gzip"))
                /\ UNCHANGED resp
           ELSE /\ Return(IF gzipped(resp) THEN [cr.resp EXCEPT !.body = gz.body]
                           ELSE cr.resp, cr.err)
                /\ resp' = ret'.resp
        /\ UNCHANGED <<depth, cred, refreshes, refreshOks>>

\* gzip, the debug tap on the response, and CheckResponse.
FinishResponse ==
    LET gz == GzipNewReader(resp.body)
        r1 == IF gzipped(resp) THEN [resp EXCEPT !.body = gz.body] ELSE resp
        r2 == IF debug THEN DebugTapResponse(r1) ELSE r1
        cr == CheckResponse(r2)
    IN  /\ IF gzipped(resp) /\ ~gz.ok
           THEN /\ Return(NoResp, Err("gzip"))
                /\ UNCHANGED resp
           ELSE /\ Return(cr.resp, cr.err)
                /\ resp' = cr.resp
        /\ UNCHANGED <<depth, cred, refreshes, refreshOks>>

\* Everything bareDo does with the response httpClient.Do returned.
BareDoHandleResponse ==
    /\ pc = "response"
    /\ IF authKind # "none" /\ isAuthenticationError(resp) /\ Refreshable(authKind)
       THEN RefreshAndRetry
       ELSE FinishResponse
    /\ UNCHANGED <<authKind, debug, ctx, req, req0, wire, sent, authOks,
                   dispatches, statuses,
                   doVars, authnVars, scopeVars>>

\* The caller cancels the context, or its deadline passes, while the call runs.
CancelCtx ==
    /\ ctx = "live"
    /\ pc \in {"enter", "dispatch", "response"}
    /\ ctx' = "cancelled"
    /\ UNCHANGED <<authKind, debug, req, req0, pc, depth, resp, wire, sent, ret, cred,
                   authOks, dispatches, refreshes, statuses, refreshOks,
                   doVars, authnVars, scopeVars>>

Next == BareDoEnter \/ BareDoDispatch \/ BareDoHandleResponse \/ CancelCtx

Spec == Init /\ [][Next]_vars

-----------------------------------------------------------------------------
\* Client.CheckResponse called on its own, on every status and body.

CheckStatuses == {100, 199, 200, 201, 204, 299, 300, 301, 400, 401, 403, 404, 500, 503}

CheckBodies == {<<>>, <<"{", "}">>, <<"{", "m", "}">>, ErrorBody, <<"x">>, <<"{", "m">>}

CheckInputs ==
    [id : {1}, status : CheckStatuses, encoding : {<<>>},
     body : {Stream(d, e) : d \in CheckBodies, e \in BOOLEAN}]

InitCheck ==
    /\ authKind = "none"
    /\ debug = FALSE
    /\ ctx = "live"
    /\ req = Request(FALSE, EmptyStream)
    /\ req0 = req
    /\ pc = "check"
    /\ depth = 0
    /\ resp \in CheckInputs
    /\ wire = resp
    /\ sent = <<>>
    /\ ret = [resp |-> NoResp, err |-> NoErr]
    /\ cred = 0
    /\ authOks = <<>>
    /\ dispatches = 0
    /\ refreshes = 0
    /\ statuses = <<>>
    /\ refreshOks = <<>>
    /\ DoIdle
    /\ AuthnIdle
    /\ ScopeIdle

CheckResponseCall ==
    /\ pc = "check"
    /\ LET cr == CheckResponse(resp)
       IN  /\ resp' = cr.resp
           /\ ret' = [resp |-> cr.resp, err |-> cr.err]
    /\ pc' = "checked"
    /\ UNCHANGED <<authKind, debug, ctx, req, req0, depth, wire, sent, cred, authOks,
                   dispatches, refreshes, statuses, refreshOks,
                   doVars, authnVars, scopeVars>>

NextCheck == CheckResponseCall

SpecCheck == InitCheck /\ [][NextCheck]_vars

-----------------------------------------------------------------------------
\* Client.Do and a resource operation (EventsService.GetEvent, CreateEvent,
\* DeleteEvent): NewRequest, then Do.

\* json.NewDecoder(body).Decode(v): the first JSON value of the stream.  An
\* empty stream that ends is io.EOF; anything else that is no value is an error.
JSONDecode(s) ==
    LET ends == {n \in 1..Len(s.data) : IsJSONObject(SubSeq(s.data, 1, n))}
    IN  IF ends # {}
        THEN LET n == CHOOSE k \in ends : \A j \in ends : k <= j
             IN  [err |-> "none", value |-> SubSeq(s.data, 2, n - 1)]
        ELSE IF s.data = <<>> /\ ~s.err THEN [err |-> "EOF", value |-> Zero]
        ELSE [err |-> "decode", value |-> Zero]

IgnoreEOFMutKeep(decErr) == decErr

\* "ignore EOF errors caused by empty response body"
IgnoreEOF(decErr) == IF decErr = "EOF" THEN "none" ELSE decErr

DoClosesBodyMutSuccessOnly(err) == err = NoErr

\* defer resp.Body.Close(): runs whatever error Do returns.
DoClosesBody(err) == TRUE

\* What Do does with the response BareDo returned without error.
DoDecodeInto(e, value) ==
    /\ doRet' = [resp |-> [ret.resp EXCEPT !.body = Drained(ret.resp.body)], err |-> e]
    /\ resp' = doRet'.resp
    /\ v' = value
    /\ closed' = IF DoClosesBody(e) THEN closed \cup {ret.resp.id} ELSE closed

\* Client.Do after BareDo returned.
DoDecode ==
    /\ pc = "done"
    /\ pc' = "returned"
    /\ IF ret.err # NoErr
       THEN /\ doRet' = ret
            /\ UNCHANGED <<resp, v, closed>>
       ELSE \/ /\ dest = "nil"
               /\ doRet' = [resp |-> ret.resp, err |-> NoErr]
               /\ closed' = IF DoClosesBody(NoErr) THEN closed \cup {ret.resp.id}
                            ELSE closed
               /\ UNCHANGED <<resp, v>>
            \/ /\ dest = "writer"
               /\ \E writeOk \in BOOLEAN :
                     IF writeOk /\ ~ret.resp.body.err
                     THEN DoDecodeInto(NoErr, ret.resp.body.data)
                     ELSE DoDecodeInto(Err("copy"), IF writeOk THEN ret.resp.body.data ELSE Zero)
            \/ /\ dest = "json"
               /\ LET d == JSONDecode(ret.resp.body)
                      e == IgnoreEOF(d.err)
                  IN  DoDecodeInto(IF e = "none" THEN NoErr ELSE Err(e), d.value)
    /\ UNCHANGED <<authKind, debug, ctx, req, req0, depth, ret, cred, authOks,
                   dispatches, refreshes, statuses, refreshOks, wire, sent,
                   client, args, dest, basePath0, authnVars, scopeVars>>

\* The resource operation calls NewRequest and returns its error.
ResourceBuild ==
    /\ pc = "build"
    /\ LET nr == NewRequest(client, args.method, args.urlStr, args.body)
       IN  IF nr.ok
           THEN /\ req' = nr.req
                /\ req0' = nr.req
                /\ pc' = "enter"
                /\ UNCHANGED doRet
           ELSE /\ doRet' = [resp |-> NoResp, err |-> nr.err]
                /\ pc' = "returned"
                /\ UNCHANGED <<req, req0>>
    /\ UNCHANGED <<authKind, debug, ctx, depth, resp, ret, cred, authOks,
                   dispatches, refreshes, statuses, refreshOks, wire, sent,
                   client, args, dest, v, closed, basePath0, authnVars, scopeVars>>

BasePaths == {<<>>, <<"/">>, <<"/", "api">>, <<"/", "api", "/">>}

UrlStrs == {<<"v2", "/", "events", "/", "1">>, <<"v2", "/", "events", "/", "%zz">>}

BodyValues == {"nil", "obj", "chan"}

\* client.BaseURL.Path = p: the field is exported and the tests assign it.
SetBaseURLPath ==
    /\ pc = "build"
    /\ \E p \in BasePaths :
          /\ p # client.BaseURLPath
          /\ client' = [client EXCEPT !.BaseURLPath = p]
    /\ UNCHANGED <<authKind, debug, ctx, req, req0, pc, depth, resp, ret, cred,
                   authOks, dispatches, refreshes, statuses, refreshOks, wire, sent,
                   args, dest, v, doRet, closed, basePath0, authnVars, scopeVars>>

InitDo ==
    /\ authKind \in {"none", "refreshable"}
    /\ debug \in BOOLEAN
    /\ ctx \in {"nil", "live"}
    /\ req = NoReq
    /\ req0 = req
    /\ pc = "build"
    /\ depth = 0
    /\ resp = NoResp
    /\ wire = NoResp
    /\ sent = <<>>
    /\ ret = [resp |-> NoResp, err |-> NoErr]
    /\ cred = 0
    /\ authOks = <<>>
    /\ dispatches = 0
    /\ refreshes = 0
    /\ statuses = <<>>
    /\ refreshOks = <<>>
    /\ client \in [BaseURLPath : {<<"/">>, <<"/", "api">>},
                   UserAgent : {DefaultClient.UserAgent},
                   shouldCompressResponse : {FALSE}]
    /\ basePath0 = client.BaseURLPath
    /\ args \in [method : {"GET"}, urlStr : UrlStrs, body : BodyValues]
    /\ dest \in {"nil", "writer", "json"}
    /\ v = Zero
    /\ doRet = [resp |-> NoResp, err |-> NoErr]
    /\ closed = {}
    /\ AuthnIdle
    /\ ScopeIdle

NextDo ==
    \/ SetBaseURLPath
    \/ ResourceBuild
    \/ BareDoEnter
    \/ BareDoDispatch
    \/ BareDoHandleResponse
    \/ CancelCtx
    \/ DoDecode

SpecDo == InitDo /\ [][NextDo]_vars

-----------------------------------------------------------------------------
\* sysdig/authentication and the static-token authenticator of
\* sysdig/authentication/accesstoken.

\* authentication.AuthorizationHeaderFor: "Bearer " + token.
AuthorizationHeaderFor(token) == <<"Bearer", token>>

\* http.Header.Set.
HeaderSet(h, key, value) == (key :> value) @@ h

NilAuthenticator == [nil |-> TRUE]

\* Every state but the position and the authenticator is as it starts.
BareDoIdle ==
    /\ authKind = "static"
    /\ debug = FALSE
    /\ ctx = "live"
    /\ req = NoReq
    /\ req0 = NoReq
    /\ depth = 0
    /\ resp = NoResp
    /\ wire = NoResp
    /\ sent = <<>>
    /\ ret = [resp |-> NoResp, err |-> NoErr]
    /\ cred = 0
    /\ authOks = <<>>
    /\ dispatches = 0
    /\ refreshes = 0
    /\ statuses = <<>>
    /\ refreshOks = <<>>

\* One AuthenticatorOption.  "fail" is an option that returns an error.
ApplyAccessTokenOption(s, o) ==
    IF o.kind = "instance" THEN [a |-> [s EXCEPT !.ibmInstanceID = o.val], ok |-> TRUE]
    ELSE IF o.kind = "team" THEN [a |-> [s EXCEPT !.sysdigTeamID = o.val], ok |-> TRUE]
    ELSE [a |-> s, ok |-> FALSE]

\* for _, o := range options: the authenticator after options i.., or the
\* first error.
RECURSIVE ApplyAccessTokenOptions(_, _, _)
ApplyAccessTokenOptions(s, options, i) ==
    IF i > Len(options) THEN [a |-> s, ok |-> TRUE]
    ELSE LET r == ApplyAccessTokenOption(s, options[i])
         IN  IF r.ok THEN ApplyAccessTokenOptions(r.a, options, i + 1)
             ELSE [a |-> s, ok |-> FALSE]

accessTokenSetMutAny(accessToken) == TRUE

\* accessToken == "" is refused.
accessTokenSet(accessToken) == accessToken # ""

\* accesstoken.Authenticator.
AccessTokenAuthenticator(accessToken, options) ==
    LET r == ApplyAccessTokenOptions(
                 [token |-> accessToken, ibmInstanceID |-> "", sysdigTeamID |-> ""],
                 options, 1)
    IN  IF ~r.ok THEN [a |-> NilAuthenticator, err |-> Err("option")]
        ELSE IF ~accessTokenSet(accessToken)
             THEN [a |-> NilAuthenticator, err |-> Err("token")]
        ELSE [a |-> r.a, err |-> NoErr]

\* accesstoken authenticator.Authenticate.
AccessTokenAuthenticate(s, h) ==
    LET h1 == HeaderSet(h, "Authorization", AuthorizationHeaderFor(s.token))
        h2 == IF s.ibmInstanceID # "" THEN HeaderSet(h1, "IBMInstanceID", s.ibmInstanceID)
              ELSE h1
        h3 == IF s.sysdigTeamID # "" THEN HeaderSet(h2, "TeamID", s.sysdigTeamID)
              ELSE h2
    IN  [header |-> h3, err |-> NoErr]

AccessTokens == {"", "tok"}

AccessTokenOptions ==
    [kind : {"instance"}, val : {"", "i1"}] \cup [kind : {"team"}, val : {"", "t1"}]
    \cup {[kind |-> "fail", val |-> ""]}

\* Longest list of options given to a constructor.
MaxOptions == 2

OptionLists(S) == UNION {[1..n -> S] : n \in 0..MaxOptions}

\* Headers a request may carry before Authenticate.
StaleHeaders ==
    {NoHeader,
     "Authorization" :> <<"Bearer", "old">>,
     "IBMInstanceID" :> "i0",
     ("IBMInstanceID" :> "i0") @@ ("TeamID" :> "t0")}

InitStatic ==
    /\ pc = "new"
    /\ BareDoIdle
    /\ DoIdle
    /\ ScopeIdle
    /\ a = NilAuthenticator
    /\ newArgs \in [key : AccessTokens, options : OptionLists(AccessTokenOptions)]
    /\ newErr = NoErr
    /\ areq = [header |-> NoHeader, err |-> NoErr]
    /\ now = 0
    /\ mu = "free"
    /\ procs = <<>>
    /\ exch = <<>>

\* a, err := accesstoken.Authenticator(accessToken, options...)
StaticNew ==
    /\ pc = "new"
    /\ LET r == AccessTokenAuthenticator(newArgs.key, newArgs.options)
       IN  /\ a' = r.a
           /\ newErr' = r.err
           /\ pc' = IF r.err = NoErr THEN "ready" ELSE "failed"
    /\ UNCHANGED <<bareDoVars, doVars, scopeVars, newArgs, areq, now, mu, procs, exch>>

\* err := a.Authenticate(req)
StaticAuthenticate ==
    /\ pc \in {"ready", "authenticated"}
    /\ \E h \in StaleHeaders :
          areq' = AccessTokenAuthenticate(a, h)
    /\ pc' = "authenticated"
    /\ UNCHANGED <<bareDoVars, doVars, scopeVars, a, newArgs, newErr, now, mu, procs, exch>>

NextStatic == StaticNew \/ StaticAuthenticate

SpecStatic == InitStatic /\ [][NextStatic]_vars

-----------------------------------------------------------------------------
\* The auto-refreshing authenticator of sysdig/authentication/ibmiam.
\* Durations and times are in minutes.

DefaultRefreshBeforeExpirationDuration == 5

tokenValidDuration == 60

defaultRefreshBefore == tokenValidDuration - DefaultRefreshBeforeExpirationDuration

\* The largest time.Duration (2^63 - 1 ns), which time.Since saturates to.
maxDuration == 153722867

\* time.Time{} and time.Now().
ZeroTime == [isZero |-> TRUE, at |-> 0]

Time(t) == [isZero |-> FALSE, at |-> t]

\* time.Since(t) at the moment n.
Since(t, n) == IF t.isZero THEN maxDuration ELSE n - t.at

\* The zero iamTokenResponse.  A token string is the number of the exchange
\* that issued it, 0 for "".
ZeroToken == [AccessToken |-> 0, RefreshToken |-> 0]

\* if duration > tokenValidDuration
RefreshBeforeTooLong(duration) == duration > tokenValidDuration

\* One AuthenticatorOption: WithRefreshBeforeDuration, WithIBMInstanceID,
\* WithSysdigTeamID.
ApplyIAMOption(s, o) ==
    IF o.kind = "refreshBefore"
    THEN IF RefreshBeforeTooLong(o.val) THEN [a |-> s, ok |-> FALSE]
         ELSE [a |-> [s EXCEPT !.refreshBefore = tokenValidDuration - o.val], ok |-> TRUE]
    ELSE IF o.kind = "instance" THEN [a |-> [s EXCEPT !.ibmInstanceID = o.val], ok |-> TRUE]
    ELSE [a |-> [s EXCEPT !.sysdigTeamID = o.val], ok |-> TRUE]

RECURSIVE ApplyIAMOptions(_, _, _)
ApplyIAMOptions(s, options, i) ==
    IF i > Len(options) THEN [a |-> s, ok |-> TRUE]
    ELSE LET r == ApplyIAMOption(s, options[i])
         IN  IF r.ok THEN ApplyIAMOptions(r.a, options, i + 1)
             ELSE [a |-> s, ok |-> FALSE]

\* ibmiam.Authenticator.
IAMAuthenticator(apiKey, options) ==
    IF apiKey = "" THEN [a |-> NilAuthenticator, err |-> Err("apikey")]
    ELSE LET r == ApplyIAMOptions(
                      [apiKey        |-> apiKey,
                       ibmInstanceID |-> "",
                       sysdigTeamID  |-> "",
                       refreshBefore |-> defaultRefreshBefore,
                       lastRefresh   |-> ZeroTime,
                       token         |-> ZeroToken],
                      options, 1)
         IN  IF r.ok THEN [a |-> r.a, err |-> NoErr]
             ELSE [a |-> NilAuthenticator, err |-> Err("option")]

\* Durations given to WithRefreshBeforeDuration.
RefreshBeforeDurations == {-1, 0, 5, 59, 60, 61}

IAMOptions ==
    [kind : {"refreshBefore"}, val : RefreshBeforeDurations]
    \cup {[kind |-> "instance", val |-> "i1"], [kind |-> "team", val |-> "t1"]}

InitIAMNew ==
    /\ pc = "new"
    /\ BareDoIdle
    /\ DoIdle
    /\ ScopeIdle
    /\ a = NilAuthenticator
    /\ newArgs \in [key : {"", "foo"}, options : OptionLists(IAMOptions)]
    /\ newErr = NoErr
    /\ areq = [header |-> NoHeader, err |-> NoErr]
    /\ now = 0
    /\ mu = "free"
    /\ procs = <<>>
    /\ exch = <<>>

\* a, err := ibmiam.Authenticator(apiKey, options...)
IAMNew ==
    /\ pc = "new"
    /\ LET r == IAMAuthenticator(newArgs.key, newArgs.options)
       IN  /\ a' = r.a
           /\ newErr' = r.err
           /\ pc' = IF r.err = NoErr THEN "ready" ELSE "failed"
    /\ UNCHANGED <<bareDoVars, doVars, scopeVars, newArgs, areq, now, mu, procs, exch>>

NextIAMNew == IAMNew

SpecIAMNew == InitIAMNew /\ [][NextIAMNew]_vars

-----------------------------------------------------------------------------
\* The ibmiam authenticator in use by concurrent goroutines.

\* The goroutines sharing one authenticator.
Procs == {"g1", "g2"}

\* Credential exchanges the model follows.
MaxExchanges == 2

\* Minutes the model lets pass.
MaxNow == 2

\* What the IAM endpoint answers: no answer, a status other than 200, 200
\* with a body that is not JSON, 200 with a JSON object whose access_token is
\* a string and whose token_type is not, 200 with a token.
ExchangeOutcomes == {"transport", "status", "syntax", "type", "ok"}

\* if time.Since(a.lastRefresh) > a.refreshBefore
NeedsRefresh(s, n) == Since(s.lastRefresh, n) > s.refreshBefore

LockFreeMutAlways(m) == TRUE

\* sync.RWMutex: Lock and RLock wait while a writer holds the lock.
LockFree(m) == m = "free"

\* json.NewDecoder(resp.Body).Decode(&a.token) for exchange n.  The decoder
\* stores every field that fits and reports the field that does not.
DecodeToken(token, outcome, n) ==
    IF outcome = "ok" THEN [AccessToken |-> n, RefreshToken |-> n]
    ELSE IF outcome = "type" THEN [token EXCEPT !.AccessToken = n]
    ELSE token

\* The header Authenticate leaves on the request.
IAMHeader(s, h) ==
    LET h1 == HeaderSet(h, "Authorization", AuthorizationHeaderFor(s.token.AccessToken))
        h2 == HeaderSet(h1, "IBMInstanceID", s.ibmInstanceID)
    IN  IF s.sysdigTeamID # "" THEN HeaderSet(h2, "TeamID", s.sysdigTeamID) ELSE h2

\* The latest exchange that succeeded, 0 when none did.
LatestOk(es) ==
    IF \E i \in DOMAIN es : es[i].outcome = "ok"
    THEN CHOOSE i \in DOMAIN es :
            /\ es[i].outcome = "ok"
            /\ \A j \in DOMAIN es : es[j].outcome = "ok" => j <= i
    ELSE 0

\* A goroutine between calls.  decided, stale, did and latest record the
\* call: the exchanges made when it decided, whether the token was stale
\* then, whether the call made an exchange, the latest successful exchange
\* when it read the token.
IdleProc ==
    [pc |-> "idle", op |-> "none", err |-> NoErr, hdr |-> NoHeader,
     decided |-> 0, stale |-> FALSE, did |-> FALSE, latest |-> 0]

\* Exchanges made or about to be made.
Committed == Len(exch) + Cardinality({q \in Procs : procs[q].pc \in {"lock", "post"}})

IAMReadyOptions ==
    {<<>>,
     <<[kind |-> "refreshBefore", val |-> 59]>>,
     <<[kind |-> "refreshBefore", val |-> 60], [kind |-> "instance", val |-> "i1"]>>,
     <<[kind |-> "refreshBefore", val |-> 59], [kind |-> "team", val |-> "t1"]>>}

InitIAM ==
    /\ pc = "ready"
    /\ BareDoIdle
    /\ DoIdle
    /\ ScopeIdle
    /\ newArgs \in [key : {"foo"}, options : IAMReadyOptions]
    /\ a = IAMAuthenticator(newArgs.key, newArgs.options).a
    /\ newErr = NoErr
    /\ areq = [header |-> NoHeader, err |-> NoErr]
    /\ now = 0
    /\ mu = "free"
    /\ procs = [p \in Procs |-> IdleProc]
    /\ exch = <<>>

\* Authenticate, up to the decision to refresh.  a.lastRefresh is read
\* without the lock: while a refresh is storing it the read may see either
\* side of the threshold.
IAMAuthenticate(p) ==
    /\ procs[p].pc = "idle"
    /\ \E need \in (IF \E q \in Procs : procs[q].pc = "stamp"
                    THEN BOOLEAN ELSE {NeedsRefresh(a, now)}) :
          /\ need => Committed < MaxExchanges
          /\ procs' = [procs EXCEPT ![p] =
                          [pc |-> IF need THEN "lock" ELSE "read",
                           op |-> "auth", err |-> NoErr, hdr |-> NoHeader,
                           decided |-> Len(exch), stale |-> NeedsRefresh(a, now),
                           did |-> FALSE, latest |-> 0]]
    /\ UNCHANGED <<bareDoVars, doVars, scopeVars, pc, a, newArgs, newErr, areq, now, mu, exch>>

\* Refresh, as Client.bareDo calls it after a 401 or 403.
IAMRefresh(p) ==
    /\ procs[p].pc = "idle"
    /\ Committed < MaxExchanges
    /\ procs' = [procs EXCEPT ![p] =
                    [pc |-> "lock", op |-> "refresh", err |-> NoErr, hdr |-> NoHeader,
                     decided |-> Len(exch), stale |-> NeedsRefresh(a, now),
                     did |-> FALSE, latest |-> 0]]
    /\ UNCHANGED <<bareDoVars, doVars, scopeVars, pc, a, newArgs, newErr, areq, now, mu, exch>>

IAMLockMutNoWait(p) ==
    /\ procs[p].pc = "lock"
    /\ mu' = p
    /\ procs' = [procs EXCEPT ![p].pc = "post"]
    /\ UNCHANGED <<bareDoVars, doVars, scopeVars, pc, a, newArgs, newErr, areq, now, exch>>

\* refreshAccessToken: a.lock.Lock()
IAMLock(p) ==
    /\ procs[p].pc = "lock"
    /\ LockFree(mu)
    /\ mu' = p
    /\ procs' = [procs EXCEPT ![p].pc = "post"]
    /\ UNCHANGED <<bareDoVars, doVars, scopeVars, pc, a, newArgs, newErr, areq, now, exch>>

\* refreshAccessToken: the POST, the status test and the decoding.
IAMExchange(p) ==
    /\ procs[p].pc = "post"
    /\ \E outcome \in ExchangeOutcomes :
          /\ exch' = Append(exch,
                        [by |-> p, outcome |-> outcome,
                         dup |-> \E i \in (procs[p].decided + 1)..Len(exch) :
                                    exch[i].outcome = "ok"])
          /\ a' = [a EXCEPT !.token = DecodeToken(a.token, outcome, Len(exch) + 1)]
          /\ IF outcome = "ok"
             THEN /\ procs' = [procs EXCEPT ![p].pc = "stamp", ![p].did = TRUE]
                  /\ UNCHANGED mu
             ELSE /\ procs' = [procs EXCEPT ![p].pc = "idle", ![p].did = TRUE,
                                            ![p].err = Err(outcome)]
                  /\ mu' = "free"
    /\ UNCHANGED <<bareDoVars, doVars, scopeVars, pc, newArgs, newErr, areq, now>>

\* refreshAccessToken: a.lastRefresh = time.Now(), return, Unlock.
IAMStamp(p) ==
    /\ procs[p].pc = "stamp"
    /\ a' = [a EXCEPT !.lastRefresh = Time(now)]
    /\ mu' = "free"
    /\ procs' = [procs EXCEPT ![p].pc = IF procs[p].op = "auth" THEN "read" ELSE "idle"]
    /\ UNCHANGED <<bareDoVars, doVars, scopeVars, pc, newArgs, newErr, areq, now, exch>>

\* Authenticate: read the token under RLock and set the headers.
IAMAttach(p) ==
    /\ procs[p].pc = "read"
    /\ LockFree(mu)
    /\ procs' = [procs EXCEPT ![p].pc = "idle",
                              ![p].hdr = IAMHeader(a, procs[p].hdr),
                              ![p].latest = LatestOk(exch)]
    /\ UNCHANGED <<bareDoVars, doVars, scopeVars, pc, a, newArgs, newErr, areq, now, mu, exch>>

\* A minute passes.
Tick ==
    /\ pc = "ready"
    /\ now < MaxNow
    /\ now' = now + 1
    /\ UNCHANGED <<bareDoVars, doVars, scopeVars, pc, a, newArgs, newErr, areq, mu, procs, exch>>

NextIAM ==
    \/ \E p \in Procs : IAMAuthenticate(p)
    \/ \E p \in Procs : IAMRefresh(p)
    \/ \E p \in Procs : IAMLock(p)
    \/ \E p \in Procs : IAMExchange(p)
    \/ \E p \in Procs : IAMStamp(p)
    \/ \E p \in Procs : IAMAttach(p)
    \/ Tick

SpecIAM == InitIAM /\ [][NextIAM]_vars

-----------------------------------------------------------------------------
\* Client.NewRequest called on its own.

InitReq ==
    /\ pc = "build"
    /\ BareDoIdle
    /\ AuthnIdle
    /\ ScopeIdle
    /\ client \in [BaseURLPath : BasePaths,
                   UserAgent : {"", DefaultClient.UserAgent},
                   shouldCompressResponse : BOOLEAN]
    /\ basePath0 = client.BaseURLPath
    /\ args \in [method : {"GET", "POST"}, urlStr : UrlStrs, body : BodyValues]
    /\ dest = "nil"
    /\ v = Zero
    /\ doRet = [resp |-> NoResp, err |-> NoErr]
    /\ closed = {}

ClientAfterNewRequestMutKeepsURL(c, urlStr) ==
    [c EXCEPT !.BaseURLPath = ResolveRef(c.BaseURLPath, urlStr)]

\* The client once NewRequest has returned: c.BaseURL.Parse builds a new
\* URL and the encoder a new buffer, no field of c is assigned.
ClientAfterNewRequest(c, urlStr) == c

\* req, err := c.NewRequest(method, urlStr, body), and the same call again.
\* req0 and ret keep what the call before returned.
NewRequestCall ==
    /\ pc \in {"build", "built"}
    /\ LET nr == NewRequest(client, args.method, args.urlStr, args.body)
       IN  /\ req' = nr.req
           /\ doRet' = [resp |-> NoResp, err |-> nr.err]
    /\ req0' = req
    /\ ret' = doRet
    /\ client' = ClientAfterNewRequest(client, args.urlStr)
    /\ pc' = IF pc = "build" THEN "built" ELSE "rebuilt"
    /\ UNCHANGED <<authKind, debug, ctx, depth, resp, cred, authOks,
                   dispatches, refreshes, statuses, refreshOks, wire, sent,
                   args, dest, v, closed, basePath0, authnVars, scopeVars>>

NextReq == NewRequestCall

SpecReq == InitReq /\ [][NextReq]_vars

-----------------------------------------------------------------------------
-----------------------------------------------------------------------------
\* Event scopes of sysdig/scope.  A string is the sequence of its pieces.

\* One scopeSelection.
Selection(selector, label, values) ==
    [label |-> label, values |-> values, selector |-> selector]

\* The values of a selection, quoted and joined by ", ".
RECURSIVE JoinValues(_, _)
JoinValues(values, c) ==
    IF c > Len(values) THEN <<>>
    ELSE (IF c > 1 THEN <<", ">> ELSE <<>>)
         \o <<"'", values[c], "'">>
         \o JoinValues(values, c + 1)

\* What Scope.String writes for one selection.
SelectionString(sel) ==
    LET prefix == IF sel.selector \in {"does not contain", "not in"}
                  THEN <<"not ">> ELSE <<>>
        selector == IF sel.selector = "does not contain" THEN "contains"
                    ELSE IF sel.selector = "not in" THEN "in"
                    ELSE sel.selector
        joined == JoinValues(sel.values, 1)
    IN  IF sel.selector \in {"in", "not in"}
        THEN prefix \o <<sel.label, " ", selector, " ", "(">> \o joined \o <<")">>
        ELSE prefix \o <<sel.label, " ", selector, " ">> \o joined

\* Scope.String.
RECURSIVE ScopeString(_, _)
ScopeString(sels, i) ==
    IF i > Len(sels) THEN <<>>
    ELSE (IF i > 1 THEN <<" and ">> ELSE <<>>)
         \o SelectionString(sels[i])
         \o ScopeString(sels, i + 1)

\* for k, v := range labels: the orders in which a Go map may be walked.
RangeOrders(m) ==
    {o \in [1..Cardinality(DOMAIN m) -> DOMAIN m] :
        \A i, j \in DOMAIN o : i # j => o[i] # o[j]}

\* The selections NewEventScopeWithLabels appends when it walks the map in
\* the order o.
LabelSelections(m, o) == [i \in DOMAIN o |-> Selection("=", o[i], <<m[o[i]]>>)]

LabelKeys == {"foo", "baz", "a"}

LabelValues == {"bar", "biz"}

LabelMaps == UNION {[K -> LabelValues] : K \in SUBSET LabelKeys}

InitScope ==
    /\ pc = "scope"
    /\ BareDoIdle
    /\ DoIdle
    /\ AuthnIdle
    /\ labels \in LabelMaps
    /\ selections = <<>>
    /\ str = <<>>

\* s := scope.NewEventScopeWithLabels(labels)
NewEventScopeWithLabels ==
    /\ pc = "scope"
    /\ \E o \in RangeOrders(labels) : selections' = LabelSelections(labels, o)
    /\ pc' = "scoped"
    /\ UNCHANGED <<bareDoVars, doVars, authnVars, labels, str>>

\* s.String()
EventScopeString ==
    /\ pc = "scoped"
    /\ str' = ScopeString(selections, 1)
    /\ pc' = "string"
    /\ UNCHANGED <<bareDoVars, doVars, authnVars, labels, selections>>

NextScope == NewEventScopeWithLabels \/ EventScopeString

SpecScope == InitScope /\ [][NextScope]_vars

\* The claims.

Is2xx(status) == 200 <= status /\ status <= 299

IsAuthStatus(status) == status = 401 \/ status = 403

Last(seq) == seq[Len(seq)]

\* The gzip reader cannot be created for the response as received.
GzipInitFails(r) == gzipped(r) /\ ~GzipNewReader(r.body).ok

\* A refreshable authenticator, a first dispatch answered 401 or 403 and a
\* second dispatch answered 2xx, and the call has returned.
C1_Case ==
    /\ authKind = "refreshable"
    /\ pc = "done"
    /\ Len(statuses) >= 2
    /\ IsAuthStatus(statuses[1])
    /\ Is2xx(statuses[2])

\* C1 as stated: 401/403 then 2xx with a refreshable authenticator gives
\* exactly one refresh, exactly two dispatches, and the 2xx response is
\* returned with no error.
C1_Original ==
    C1_Case =>
        /\ refreshes = 1
        /\ dispatches = 2
        /\ ret.err = NoErr
        /\ ret.resp.id = 2
        /\ ret.resp.status = statuses[2]

\* C1 as amended: 401/403 then 2xx with a refreshable authenticator gives
\* exactly one refresh and exactly two dispatches; the 2xx response is
\* returned with no error unless it is marked gzip and the gzip reader cannot
\* be created, in which case that error is returned with no response.
C1_RetryOnce ==
    C1_Case =>
        /\ refreshes = 1
        /\ refreshOks = <<TRUE>>
        /\ dispatches = 2
        /\ IF GzipInitFails(wire)
           THEN ret = [resp |-> NoResp, err |-> Err("gzip")]
           ELSE /\ ret.err = NoErr
                /\ ret.resp.id = 2
                /\ ret.resp.status = statuses[2]

C1_Witness ==
    /\ C1_Case
    /\ refreshes = 1
    /\ ret.err = NoErr
    /\ ret.resp.id = 2

\* C2: with a refreshable authenticator whose refresh always succeeds and a
\* server answering every dispatch 401 or 403, the call stops after the single
\* retry: at most one refresh, at most two dispatches, and once the second
\* answer is handled the call has returned it as an API error.
C2_BoundedRetry ==
    ( /\ authKind = "refreshable"
      /\ \A i \in 1..Len(statuses) : IsAuthStatus(statuses[i])
      /\ \A i \in 1..Len(refreshOks) : refreshOks[i] )
    =>  /\ refreshes <= 1
        /\ dispatches <= 2
        /\ (pc = "done" /\ dispatches = 2 =>
                ret.err.kind = "api" /\ ret.resp.id = 2)

\* C3: one send dispatches at most twice and refreshes at most once.
C3_AtMostTwoDispatches == dispatches <= 2 /\ refreshes <= 1

\* C4: when Refresh returns an error the call returns that error with no
\* response, after exactly one dispatch.
C4_RefreshErrorAfterOneDispatch ==
    (Len(refreshOks) > 0 /\ ~Last(refreshOks)) =>
        /\ pc = "done"
        /\ ret = [resp |-> NoResp, err |-> Err("refresh")]
        /\ dispatches = 1

\* An absent or non-refreshable authenticator, a first dispatch answered 401
\* or 403, and the call has returned.
C5_Case ==
    /\ authKind \in {"none", "static", "func"}
    /\ pc = "done"
    /\ Len(statuses) >= 1
    /\ IsAuthStatus(statuses[1])

\* C5 as stated: 401/403 without a refreshable authenticator gives exactly
\* one dispatch, no refresh, and the response is returned together with a
\* structured API error.
C5_Original ==
    C5_Case =>
        /\ dispatches = 1
        /\ refreshes = 0
        /\ ret.resp.id = 1
        /\ ret.resp.status = statuses[1]
        /\ ret.err.kind = "api"
        /\ ret.err.Response = 1

\* C5 as amended: 401/403 without a refreshable authenticator gives exactly
\* one dispatch and no refresh; the response is returned together with a
\* structured API error unless it is marked gzip and the gzip reader cannot be
\* created, in which case that error is returned with no response.
C5_NoRefreshCapability ==
    C5_Case =>
        /\ dispatches = 1
        /\ refreshes = 0
        /\ IF GzipInitFails(wire)
           THEN ret = [resp |-> NoResp, err |-> Err("gzip")]
           ELSE /\ ret.resp.id = 1
                /\ ret.resp.status = statuses[1]
                /\ ret.err.kind = "api"
                /\ ret.err.Response = 1

C5_Witness ==
    /\ C5_Case
    /\ authKind = "static"
    /\ statuses[1] = 403
    /\ ret.err.kind = "api"
    /\ ret.resp.id = 1

\* C6: when Authenticate returns an error, on the first attempt or on the
\* attempt after a refresh, the call returns that error with no response, and
\* that attempt makes no dispatch and no refresh (every earlier attempt made
\* one of each).
C6_AuthenticateErrorFailsFast ==
    (Len(authOks) > 0 /\ ~Last(authOks)) =>
        /\ pc = "done"
        /\ ret = [resp |-> NoResp, err |-> Err("auth")]
        /\ Len(authOks) = depth + 1
        /\ dispatches = depth
        /\ refreshes = depth
        /\ depth = 0 => req = req0

C6_Witness ==
    /\ Len(authOks) = 2
    /\ ~Last(authOks)
    /\ pc = "done"
    /\ depth = 1

\* C7: with a nil context the call returns an error at once: Authenticate is
\* not called, the request is not modified, nothing is dispatched.
C7_NilContext ==
    ctx = "nil" =>
        /\ pc \in {"enter", "done"}
        /\ authOks = <<>>
        /\ dispatches = 0
        /\ refreshes = 0
        /\ req = req0
        /\ pc = "done" => ret = [resp |-> NoResp, err |-> Err("nilctx")]

C7_Witness ==
    /\ ctx = "nil"
    /\ pc = "done"
    /\ authKind = "refreshable"
    /\ debug
    /\ req0.hasBody

\* C8: when httpClient.Do returns an error the call returns at once with no
\* response: the context's error if the context is cancelled by then, the
\* transport error otherwise; that attempt makes no refresh and no retry.
C8_TransportError ==
    (Len(statuses) > 0 /\ Last(statuses) = 0) =>
        /\ pc = "done"
        /\ ret.resp = NoResp
        /\ ret.err = IF ctx = "cancelled" THEN Err("ctx") ELSE Err("transport")
        /\ dispatches = Len(statuses)
        /\ refreshes = Len(statuses) - 1
        /\ depth = Len(statuses) - 1

C8_Witness ==
    /\ Len(statuses) = 2
    /\ Last(statuses) = 0
    /\ ctx = "cancelled"
    /\ ret.err = Err("ctx")

\* C9: CheckResponse returns no error exactly for the statuses 200..299; for
\* every other status it returns an ErrorResponse that refers to the response.
C9_CheckResponseRange ==
    pc = "checked" =>
        /\ (ret.err = NoErr) <=> Is2xx(wire.status)
        /\ ~Is2xx(wire.status) =>
              /\ ret.err.kind = "api"
              /\ ret.err.Response = wire.id
              /\ ret.resp.id = wire.id

C9_Witness ==
    /\ pc = "checked"
    /\ wire.status = 299
    /\ ret.err = NoErr

\* C10: for a non-2xx response, the body read after CheckResponse yields the
\* bytes the body yielded before it, whether or not they decoded.
C10_BodyRestored ==
    (pc = "checked" /\ ~Is2xx(wire.status)) =>
        /\ ReadAll(resp.body).data = ReadAll(wire.body).data
        /\ ReadAll(ret.resp.body).data = ReadAll(wire.body).data

C10_Witness ==
    /\ pc = "checked"
    /\ wire.status = 500
    /\ ReadAll(wire.body).data = <<"x">>
    /\ ret.err.Message = UnmarshalFailed
    /\ ReadAll(resp.body).data = <<"x">>

EncodingIndicatesGzip(r) == \E i \in DOMAIN r.encoding : r.encoding[i] = "gzip"

GzipPayloads == {ErrorBody, <<"x">>}

\* The call has returned after bareDo finished with the latest response, whose
\* Content-Encoding names gzip.
C12_Case ==
    /\ pc = "done"
    /\ wire.id # 0
    /\ Len(statuses) = wire.id
    /\ Last(statuses) # 0
    /\ ~(authKind = "refreshable" /\ IsAuthStatus(wire.status))
    /\ EncodingIndicatesGzip(wire)

\* C12: for a response marked gzip, the body of the response BareDo returns
\* reads as the decompressed content (the gzip of p reads back as p); when the
\* gzip reader cannot be created BareDo returns that error and no response.
C12_GzipDecompressed ==
    C12_Case =>
        IF wire.body.data # <<>> /\ wire.body.data[1] = "GZ"
        THEN /\ ret.resp.id = wire.id
             /\ \A p \in GzipPayloads :
                   wire.body.data = Gzip(p) => ReadAll(ret.resp.body).data = p
        ELSE ret = [resp |-> NoResp, err |-> Err("gzip")]

C12_Witness ==
    /\ C12_Case
    /\ wire.status = 200
    /\ wire.body.data = Gzip(<<"x">>)
    /\ ret.err = NoErr
    /\ ReadAll(ret.resp.body).data = <<"x">>


\* The response body starts with a complete JSON object.
HasObjectPrefix(data) == \E n \in 1..Len(data) : IsJSONObject(SubSeq(data, 1, n))

\* Do was called with a JSON destination and BareDo handed it a response.
C13_Case == pc = "returned" /\ dest = "json" /\ ret.err = NoErr /\ ret.resp # NoResp

\* C13: with a JSON destination, a successful response whose body is empty
\* is no error and leaves the destination at its zero value; every other
\* decode error is returned by Do together with the response.
C13_EmptyBodyNotAnError ==
    C13_Case =>
        /\ ret.resp.body = Stream(<<>>, FALSE) =>
              /\ doRet.err = NoErr
              /\ v = Zero
              /\ doRet.resp.id = ret.resp.id
        /\ (ret.resp.body # Stream(<<>>, FALSE) /\ ~HasObjectPrefix(ret.resp.body.data)) =>
              /\ doRet.err = Err("decode")
              /\ doRet.resp # NoResp
              /\ doRet.resp.id = ret.resp.id
        /\ HasObjectPrefix(ret.resp.body.data) => doRet.err = NoErr /\ v # Zero

C13_Witness ==
    /\ C13_Case
    /\ ret.resp.status = 200
    /\ ret.resp.body = Stream(<<>>, FALSE)
    /\ doRet = [resp |-> ret.resp, err |-> NoErr]
    /\ v = Zero

C13_WitnessDecodeError ==
    /\ C13_Case
    /\ ret.resp.body.data = <<"x">>
    /\ doRet.err = Err("decode")
    /\ doRet.resp.id = ret.resp.id


\* BareDo handed Do a response and no error, and Do has returned.
C14_Case == pc = "returned" /\ ret.err = NoErr /\ ret.resp # NoResp

\* C14: whenever BareDo returned a response without error, Do has called
\* Close on the response body by the time it returns, whatever the
\* destination (nil, io.Writer, JSON) and whatever error Do returns.
C14_BodyClosedOnEveryExit ==
    C14_Case =>
        /\ ret.resp.id \in closed
        /\ doRet.resp.id = ret.resp.id

C14_Witness ==
    /\ C14_Case
    /\ dest = "json"
    /\ doRet.err = Err("decode")
    /\ ret.resp.id \in closed


\* The base URL path the resource operation finds has no trailing slash.
C15_Case == Len(client.BaseURLPath) = 0 \/ client.BaseURLPath[Len(client.BaseURLPath)] # "/"

\* C15: while the base URL path does not end in "/", every NewRequest call
\* returns an error and no request, also after the path was changed on the
\* constructed client; the resource operation returns that error with a nil
\* response and nothing is authenticated or dispatched.
C15_BaseURLTrailingSlash ==
    C15_Case =>
        /\ \A u \in UrlStrs, b \in BodyValues :
              /\ ~NewRequest(client, "GET", u, b).ok
              /\ NewRequest(client, "GET", u, b).err = Err("baseurl")
              /\ NewRequest(client, "GET", u, b).req = NoReq
        /\ pc \in {"build", "returned"}
        /\ pc = "returned" =>
              /\ doRet = [resp |-> NoResp, err |-> Err("baseurl")]
              /\ dispatches = 0
              /\ authOks = <<>>
              /\ wire = NoResp

C15_Witness ==
    /\ pc = "returned"
    /\ basePath0 = <<"/">>
    /\ client.BaseURLPath = <<>>
    /\ doRet = [resp |-> NoResp, err |-> Err("baseurl")]
    /\ dispatches = 0


\* Some option of the list returns an error.
SomeOptionFails(options) == \E i \in DOMAIN options : options[i].kind = "fail"

\* The value the last option of the kind configured, "" when there is none.
Configured(options, kind) ==
    IF \E i \in DOMAIN options : options[i].kind = kind
    THEN options[CHOOSE i \in DOMAIN options :
                    /\ options[i].kind = kind
                    /\ \A j \in DOMAIN options : options[j].kind = kind => j <= i].val
    ELSE ""

\* C16: the static-token authenticator is constructed exactly when the token
\* is non-empty and no option returns an error; every Authenticate call then
\* sets Authorization to the bearer form of the construction-time token and
\* the configured instance and team headers, returns no error, and the
\* authenticator has no Refresh.
C16_StaticToken ==
    /\ pc = "failed" <=> (pc # "new" /\ (newArgs.key = "" \/ SomeOptionFails(newArgs.options)))
    /\ pc = "failed" => a = NilAuthenticator /\ newErr # NoErr
    /\ pc \in {"ready", "authenticated"} =>
          /\ newErr = NoErr
          /\ a.token = newArgs.key
          /\ a.token # ""
    /\ pc = "authenticated" =>
          /\ areq.err = NoErr
          /\ areq.header["Authorization"] = <<"Bearer", newArgs.key>>
          /\ Configured(newArgs.options, "instance") # "" =>
                areq.header["IBMInstanceID"] = Configured(newArgs.options, "instance")
          /\ Configured(newArgs.options, "team") # "" =>
                areq.header["TeamID"] = Configured(newArgs.options, "team")
    /\ ~Refreshable(authKind)

C16_Witness ==
    /\ pc = "authenticated"
    /\ newArgs.key = "tok"
    /\ newArgs.options = <<[kind |-> "instance", val |-> "i1"], [kind |-> "team", val |-> "t1"]>>
    /\ areq.err = NoErr
    /\ areq.header = ("Authorization" :> <<"Bearer", "tok">>) @@ ("IBMInstanceID" :> "i1")
                     @@ ("TeamID" :> "t1")


\* C18: construction of the auto-refreshing authenticator with a
\* refresh-before duration d succeeds only if d is less than the validity
\* window of one hour; for every d not less than the window, d equal to the
\* window included, construction fails with an error.
C18_RefreshBeforeLessThanWindow ==
    pc \in {"ready", "failed"} =>
        \A i \in DOMAIN newArgs.options :
            (newArgs.options[i].kind = "refreshBefore"
             /\ ~(newArgs.options[i].val < tokenValidDuration)) =>
                /\ pc = "failed"
                /\ newErr # NoErr
                /\ a = NilAuthenticator


\* Goroutine p has returned from an Authenticate call that returned no error.
Attached(p) ==
    /\ procs[p].pc = "idle"
    /\ procs[p].op = "auth"
    /\ procs[p].err = NoErr

\* C17: an Authenticate call exchanges credentials before it attaches the
\* headers when it is the first call or when more than the threshold has
\* passed since the last successful refresh, and attaches the cached token
\* without an exchange otherwise; the token it attaches is the one the latest
\* successful exchange returned.
C17_ExchangeWhenStale ==
    \A p \in Procs :
        Attached(p) =>
            /\ procs[p].stale <=> procs[p].did
            /\ procs[p].latest # 0
            /\ procs[p].hdr["Authorization"] = <<"Bearer", procs[p].latest>>


\* Exchanges goroutine p has made.
ExchangesBy(p) == Cardinality({j \in DOMAIN exch : exch[j].by = p})

\* C19 as stated: concurrent callers that need a token cause one credential
\* exchange; no caller makes an exchange when another exchange has succeeded
\* since that caller found it needed one.
C19_Original == \A j \in DOMAIN exch : ~exch[j].dup

\* C19: refreshes are serialized but not coalesced: at most one goroutine
\* is between Lock and Unlock of refreshAccessToken, and every goroutine
\* that decided to refresh makes an exchange of its own once it has the
\* lock, whether or not another goroutine has refreshed in the meantime.
C19_SerializedNotCoalesced ==
    /\ \A p, q \in Procs :
          (procs[p].pc \in {"post", "stamp"} /\ procs[q].pc \in {"post", "stamp"}) => p = q
    /\ \A p \in Procs : procs[p].pc \in {"post", "stamp"} => mu = p
    /\ \A p \in Procs :
          (procs[p].pc \in {"stamp", "read", "idle"} /\ procs[p].op = "refresh") =>
              procs[p].did
    /\ \A j \in DOMAIN exch :
          exch[j].dup => \E i \in 1..(j - 1) : exch[i].outcome = "ok" /\ exch[i].by # exch[j].by

C19_Witness ==
    /\ Len(exch) = 2
    /\ exch[1] = [by |-> "g1", outcome |-> "ok", dup |-> FALSE]
    /\ exch[2] = [by |-> "g2", outcome |-> "ok", dup |-> TRUE]
    /\ procs["g1"].decided = 0
    /\ procs["g2"].decided = 0
    /\ procs["g1"].op = "auth"
    /\ procs["g2"].op = "auth"


\* NewRequest returned a request.
C20_Case == pc = "built" /\ doRet.err = NoErr

\* C20: a request NewRequest returns carries Content-Type exactly when a
\* body was given, always Accept, User-Agent exactly when the client's
\* UserAgent is non-empty, and Accept-Encoding exactly when the client asks
\* for compressed responses.
C20_RequestHeaders ==
    C20_Case =>
        /\ "Content-Type" \in DOMAIN req.header <=> args.body # "nil"
        /\ "Content-Type" \in DOMAIN req.header =>
              req.header["Content-Type"] = "application/json"
        /\ "Accept" \in DOMAIN req.header
        /\ req.header["Accept"] = "application/json"
        /\ "User-Agent" \in DOMAIN req.header <=> client.UserAgent # ""
        /\ "User-Agent" \in DOMAIN req.header =>
              req.header["User-Agent"] = client.UserAgent
        /\ "Accept-Encoding" \in DOMAIN req.header <=> client.shouldCompressResponse
        /\ DOMAIN req.header \subseteq
              {"Content-Type", "Accept", "User-Agent", "Accept-Encoding"}

C20_Witness ==
    /\ C20_Case
    /\ args.body = "nil"
    /\ client.UserAgent = ""
    /\ client.shouldCompressResponse
    /\ DOMAIN req.header = {"Accept", "Accept-Encoding"}


\* NewRequest was called twice with the same arguments.
C21_Case == pc = "rebuilt"

C22_ScopeStringDeterministic ==
    (pc = "string" /\ labels = [k \in {"foo", "baz"} |-> IF k = "foo" THEN "bar" ELSE "biz"]) =>
        str = <<"foo", " ", "=", " ", "'", "bar", "'", " and ",
                "baz", " ", "=", " ", "'", "biz", "'">>


\* C23: when BareDo retries after a successful refresh, the retried
\* dispatch transmits the same request body bytes as the first dispatch;
\* the body is not sent drained.
C23_RetrySendsSameBody ==
    \A i \in DOMAIN sent :
        /\ sent[i].hasBody = sent[1].hasBody
        /\ sent[i].body = sent[1].body


\* Goroutine p reads a.lastRefresh in this step (Authenticate, line 51).
ReadsLastRefresh(p) ==
    /\ procs[p].pc = "idle"
    /\ procs'[p].op = "auth"
    /\ procs'[p].pc \in {"lock", "read"}

\* C24: every read and write of the cached token and of the last-refresh
\* time is made with the lock held, so no goroutine reads that state while
\* another goroutine is inside the exclusive section that writes it.
C24_AccessUnderLock ==
    [][\A p \in Procs : ReadsLastRefresh(p) => mu = "free"]_vars


\* The goroutines between Lock and Unlock of refreshAccessToken.
InCriticalSection == {p \in Procs : procs[p].pc \in {"post", "stamp"}}

\* C25: at most one refresh is inside the critical section of an
\* authenticator at any time: at most one credential exchange is in flight
\* and the goroutine that writes the cached token is the one holding the lock.
C25_OneRefreshInCriticalSection ==
    /\ Cardinality(InCriticalSection) <= 1
    /\ InCriticalSection = IF mu = "free" THEN {} ELSE {mu}

C25_Witness ==
    /\ procs["g1"].pc = "post"
    /\ procs["g2"].pc = "lock"
    /\ mu = "g1"
    /\ procs["g1"].op = "auth"
    /\ procs["g2"].op = "refresh"
    /\ InCriticalSection = {"g1"}


\* Goroutine p gets the answer of its credential exchange in this step.
Exchanges(p) == procs[p].pc = "post" /\ Len(exch') = Len(exch) + 1

\* C26: the cached token and last-refresh time are empty at construction;
\* a successful refresh replaces the whole token and then the time; a
\* refresh that fails returns its error and leaves the token and the time as
\* they were.
C26_FailedRefreshKeepsState ==
    /\ (exch = <<>> /\ \A p \in Procs : procs[p].pc \in {"idle", "lock"}) =>
           /\ a.token = ZeroToken
           /\ a.lastRefresh = ZeroTime
    /\ [][\A p \in Procs :
            /\ Exchanges(p) =>
                  IF exch'[Len(exch')].outcome = "ok"
                  THEN /\ a'.token.AccessToken = Len(exch')
                       /\ a'.token.RefreshToken = Len(exch')
                       /\ procs'[p].pc = "stamp"
                  ELSE /\ procs'[p].err # NoErr
                       /\ a'.token = a.token
                       /\ a'.lastRefresh = a.lastRefresh
            /\ (procs[p].pc = "stamp" /\ procs'[p].pc # "stamp") =>
                  /\ a'.lastRefresh = Time(now)
                  /\ a'.token = a.token]_vars


\* C27: every response a dispatch of BareDo obtained is, when BareDo has
\* returned, either the response returned to the caller or a response whose
\* body was closed: the 401 or 403 that triggers a refresh and a response
\* dropped because the refresh or the gzip reader failed are not left open.
C27_NoResponseAbandoned ==
    pc = "done" =>
        \A i \in DOMAIN statuses :
            statuses[i] # 0 => (ret.resp.id = i \/ i \in closed)


\* What bareDo returns for the response w when debug is clear: gzip, then
\* CheckResponse.
WithoutDebug(w) ==
    LET gz == GzipNewReader(w.body)
        r1 == IF gzipped(w) THEN [w EXCEPT !.body = gz.body] ELSE w
        cr == CheckResponse(r1)
    IN  IF gzipped(w) /\ ~gz.ok THEN [resp |-> NoResp, err |-> Err("gzip")]
        ELSE [resp |-> cr.resp, err |-> cr.err]

\* A call with debug set has returned what it made of its latest response.
C28_Case ==
    /\ pc = "done"
    /\ debug
    /\ wire.id # 0
    /\ Len(statuses) = wire.id
    /\ Last(statuses) # 0
    /\ ret.err.kind \in {"none", "api", "gzip"}

\* C28: debug only adds logging: for every request and every response,
\* also one whose body fails while it is read, the call with debug set
\* returns the status, the readable body bytes and the error it returns with
\* debug clear, and dispatches the same request body.
C28_DebugOnlyLogs ==
    C28_Case =>
        /\ ret.err = WithoutDebug(wire).err
        /\ ret.resp.status = WithoutDebug(wire).resp.status
        /\ ReadAll(ret.resp.body).data = ReadAll(WithoutDebug(wire).resp.body).data
        /\ sent[1].hasBody = req0.hasBody
        /\ sent[1].body = ReadAll(req0.body).data


\* C29: with an authenticator configured the steps of one call come in
\* sequence: every dispatch follows a successful Authenticate of the same
\* attempt, Refresh is called only after a dispatch was answered 401 or 403
\* and before the Authenticate of the retry, and the retried dispatch carries
\* the credentials the authenticator gives after the refresh.
C29_StepsInSequence ==
    authKind # "none" =>
        /\ dispatches = Len(sent)
        /\ Len(authOks) \in {dispatches, dispatches + 1}
        /\ \A i \in 1..dispatches : authOks[i]
        /\ Len(authOks) = dispatches + 1 => pc \in {"dispatch", "done"}
        /\ (Len(authOks) = dispatches + 1 /\ pc = "done") => ~authOks[Len(authOks)]
        /\ refreshes = Len(refreshOks)
        /\ refreshes <= Len(statuses)
        /\ \A k \in 1..refreshes : IsAuthStatus(statuses[k])
        /\ \A k \in 1..Len(authOks) : k > 1 => (refreshes >= k - 1 /\ refreshOks[k - 1])
        /\ \A i \in DOMAIN sent : sent[i].authz = i
        /\ \A i \in DOMAIN sent : i > 1 => sent[i].authz # sent[1].authz

C29_Witness ==
    /\ pc = "done"
    /\ authKind = "refreshable"
    /\ statuses = <<401, 200>>
    /\ refreshOks = <<TRUE>>
    /\ authOks = <<TRUE, TRUE>>
    /\ sent[1].authz = 1
    /\ sent[2].authz = 2
    /\ ret.err = NoErr


\* The call has returned what it made of a non-2xx response whose
\* Content-Encoding names gzip and whose body is a complete gzip stream.
C30_Case ==
    /\ pc = "done"
    /\ wire.id # 0
    /\ Len(statuses) = wire.id
    /\ Last(statuses) # 0
    /\ ~(authKind = "refreshable" /\ IsAuthStatus(wire.status))
    /\ ~(200 <= wire.status /\ wire.status <= 299)
    /\ \E i \in DOMAIN wire.encoding : wire.encoding[i] = "gzip"
    /\ ~wire.body.err
    /\ wire.body.data \in {Gzip(ErrorBody), Gzip(<<"x">>)}

\* C30: decompression comes before error mapping: for a non-2xx response
\* with gzip content encoding the message and sub-errors of the returned
\* error are decoded from the inflated bytes, and the body left on the
\* response is the inflated content.
C30_InflateBeforeErrorMapping ==
    C30_Case =>
        /\ ret.err.kind = "api"
        /\ ret.resp.id = wire.id
        /\ wire.body.data = Gzip(ErrorBody) =>
              /\ ret.err.Message = "bad"
              /\ ret.err.Errors = <<SubError>>
              /\ ReadAll(ret.resp.body) = [data |-> ErrorBody, err |-> FALSE]
        /\ wire.body.data = Gzip(<<"x">>) =>
              /\ ret.err.Message = UnmarshalFailed
              /\ ret.err.Errors = <<>>
              /\ ReadAll(ret.resp.body) = [data |-> <<"x">>, err |-> FALSE]

C30_Witness ==
    /\ C30_Case
    /\ wire.status = 500
    /\ wire.body.data = Gzip(ErrorBody)
    /\ ret.err.Message = "bad"
    /\ ret.err.Errors = <<SubError>>
    /\ ReadAll(ret.resp.body).data = ErrorBody

====
